---- MODULE Spec2Model ----
(***************************************************************************)
(* A model of pelican/readers.py: the reader classes, the extension        *)
(* registry built at import time, the metadata coercion table and the      *)
(* read_file dispatch function.                                            *)
(*                                                                         *)
(* Text is modelled character by character: a Python string is a TLA+      *)
(* string, and the regular expressions of the module are operators over    *)
(* its characters.  The markup engines (docutils, Markdown, AsciiDoc,      *)
(* Typogrify) are external: a document carries what each engine returns    *)
(* for it.                                                                 *)
(***************************************************************************)
EXTENDS Integers, Sequences, FiniteSets, TLC

(***************************************************************************)
(* Python string primitives.                                               *)
(***************************************************************************)
Char(s, i) == SubSeq(s, i, i)

UpperLetters == "ABCDEFGHIJKLMNOPQRSTUVWXYZ"

LowerLetters == "abcdefghijklmnopqrstuvwxyz"

Digits == "0123456789"

\* c is one of the characters of the string cs
CharIn(c, cs) == \E k \in 1..Len(cs) : Char(cs, k) = c

\* the \s class of the re module, over the characters the model uses
IsSpace(c) == c \in {" ", "\t", "\n"}

LowerChar(c) ==
    IF CharIn(c, UpperLetters)
    THEN Char(LowerLetters, CHOOSE k \in 1..Len(UpperLetters) : Char(UpperLetters, k) = c)
    ELSE c

UpperChar(c) ==
    IF CharIn(c, LowerLetters)
    THEN Char(UpperLetters, CHOOSE k \in 1..Len(LowerLetters) : Char(LowerLetters, k) = c)
    ELSE c

RECURSIVE Lower(_)
\* str.lower
Lower(s) ==
    IF Len(s) = 0 THEN ""
    ELSE Lower(SubSeq(s, 1, Len(s) - 1)) \o LowerChar(Char(s, Len(s)))

RECURSIVE Upper(_)
\* str.upper
Upper(s) ==
    IF Len(s) = 0 THEN ""
    ELSE Upper(SubSeq(s, 1, Len(s) - 1)) \o UpperChar(Char(s, Len(s)))

RECURSIVE rstrip(_)
\* str.rstrip
rstrip(s) ==
    IF Len(s) > 0 /\ IsSpace(Char(s, Len(s)))
    THEN rstrip(SubSeq(s, 1, Len(s) - 1))
    ELSE s

RECURSIVE lstrip(_)
\* str.lstrip
lstrip(s) ==
    IF Len(s) > 0 /\ IsSpace(Char(s, 1))
    THEN lstrip(SubSeq(s, 2, Len(s)))
    ELSE s

\* str.strip
strip(s) == lstrip(rstrip(s))

\* the positions of the character c in s
Positions(s, c) == {k \in 1..Len(s) : Char(s, k) = c}

SetMin(S) == CHOOSE x \in S : \A y \in S : x <= y

SetMax(S) == CHOOSE x \in S : \A y \in S : x >= y

RECURSIVE split(_, _)
\* str.split(sep) for a one-character separator
split(s, sep) ==
    IF Positions(s, sep) = {} THEN <<s>>
    ELSE LET k == SetMin(Positions(s, sep))
         IN  <<SubSeq(s, 1, k - 1)>> \o split(SubSeq(s, k + 1, Len(s)), sep)

RECURSIVE join(_, _)
\* sep.join(parts)
join(parts, sep) ==
    IF Len(parts) = 0 THEN ""
    ELSE IF Len(parts) = 1 THEN parts[1]
    ELSE parts[1] \o sep \o join(Tail(parts), sep)

\* s[k:]: the text of s from the 1-based position k on
From(s, k) == SubSeq(s, k, Len(s))

\* s.startswith(p, at k)
StartsAt(s, k, p) == k + Len(p) - 1 <= Len(s) /\ SubSeq(s, k, k + Len(p) - 1) = p

(***************************************************************************)
(* Metadata values.  Every value of a metadata mapping is a record of one  *)
(* shape: a plain string, None, or what a coercion rule builds.            *)
(***************************************************************************)
Value(kind, str, items) == [kind |-> kind, str |-> str, items |-> items]

\* a plain (unicode) string
Raw(s) == Value("str", s, <<>>)

NoneValue == Value("None", "", <<>>)

\* the exception a coercion rule raises, carried as a value
Raised(s) == Value("ValueError", s, <<>>)

IsRaised(v) == v.kind = "ValueError"

\* dict item assignment  m[k] = v
Put(m, k, v) == [x \in (DOMAIN m) \cup {k} |-> IF x = k THEN v ELSE m[x]]

EmptyDict == [x \in {} |-> NoneValue]

\* pelican.utils.get_date: a structured date, or ValueError when the text is
\* no date.  Dates are written with digits and the separators - / . : and space.
get_date(x) ==
    IF Len(x) > 0 /\ (\A k \in 1..Len(x) : CharIn(Char(x, k), Digits \o "-/.: "))
                  /\ (\E k \in 1..Len(x) : CharIn(Char(x, k), Digits))
    THEN Value("date", x, <<>>)
    ELSE Raised("'" \o x \o "' is not a valid date")

\* the keys of _METADATA_PROCESSORS as the module defines them
ProcessorNames == {"tags", "date", "status", "category", "author"}

\* _METADATA_PROCESSORS[name](x, settings)
Processor(name, x) ==
    CASE name = "tags" -> Value("tags", "", split(x, ","))
      [] name = "date" -> get_date(x)
      [] name = "status" -> Raw(strip(x))
      [] name = "category" -> Value("Category", x, <<>>)
      [] name = "author" -> Value("Author", x, <<>>)

\* Reader.process_metadata, given the coercion table's keys
process_metadata(table, name, value) ==
    IF name \in table THEN Processor(name, value) ELSE Raw(value)

(***************************************************************************)
(* The regular expressions of AsciiDocReader.  A match is a record: ok,    *)
(* and the groups g1, g2, g3; none is TRUE when an optional group took     *)
(* no part in the match.                                                   *)
(***************************************************************************)
NoMatch == [ok |-> FALSE, g1 |-> "", g2 |-> "", g3 |-> "", none |-> FALSE]

\* meta_re = ^:(.+?): (.+)$
meta_re(line) ==
    LET n == Len(line)
        ends == {k \in 3..(n - 2) : Char(line, k) = ":" /\ Char(line, k + 1) = " "}
    IN  IF n >= 1 /\ Char(line, 1) = ":" /\ ends # {}
        THEN LET k == SetMin(ends)
             IN  [ok |-> TRUE, g1 |-> SubSeq(line, 2, k - 1), g2 |-> From(line, k + 2),
                  g3 |-> "", none |-> FALSE]
        ELSE NoMatch

\* author_re = ^([^\s].+?) <([^\s]+?)>$
author_re(line) ==
    LET n == Len(line)
        ends == {j \in 2..(n - 4) :
                    /\ Char(line, j + 1) = " "
                    /\ Char(line, j + 2) = "<"
                    /\ \A k \in (j + 3)..(n - 1) : ~IsSpace(Char(line, k))}
    IN  IF n >= 1 /\ ~IsSpace(Char(line, 1)) /\ Char(line, n) = ">" /\ ends # {}
        THEN LET j == SetMin(ends)
             IN  [ok |-> TRUE, g1 |-> SubSeq(line, 1, j), g2 |-> SubSeq(line, j + 3, n - 1),
                  g3 |-> "", none |-> FALSE]
        ELSE NoMatch

\* the number of spaces of line from position p on
RECURSIVE SpacesAt(_, _)
SpacesAt(line, p) ==
    IF p <= Len(line) /\ Char(line, p) = " " THEN 1 + SpacesAt(line, p + 1) ELSE 0

\* the rest of rev_re from position p:   *(.+?): *(.+?)$
\* (greedy spaces, backing off until a date of one character or more is
\* followed by a colon that has text after it)
rev_tail(line, p) ==
    LET n == Len(line)
        colons(q) == {c \in (q + 1)..(n - 1) : Char(line, c) = ":"}
        skips == {s \in 0..SpacesAt(line, p) : p + s <= n /\ colons(p + s) # {}}
    IN  IF skips = {} THEN NoMatch
        ELSE LET q == p + SetMax(skips)
                 c == SetMin(colons(q))
                 sp == SpacesAt(line, c + 1)
                 r == IF c + 1 + sp <= n THEN c + 1 + sp ELSE n
             IN  [ok |-> TRUE, g1 |-> "", g2 |-> SubSeq(line, q, c - 1), g3 |-> From(line, r),
                  none |-> TRUE]

\* rev_re = ^(?:(.+?),)? *(.+?): *(.+?)$
rev_re(line) ==
    LET n == Len(line)
        commas == {m \in 2..n : Char(line, m) = "," /\ rev_tail(line, m + 1).ok}
    IN  IF commas # {}
        THEN LET m == SetMin(commas)
             IN  [rev_tail(line, m + 1) EXCEPT !.g1 = SubSeq(line, 1, m - 1), !.none = FALSE]
        ELSE rev_tail(line, 1)

(***************************************************************************)
(* Documents.  A source file is its lines of text (without the line        *)
(* ends) together with what the external engines return for it: the Meta   *)
(* mapping and HTML of Markdown, the docinfo elements, title and body of   *)
(* docutils, the HTML of AsciiDoc.                                         *)
(***************************************************************************)
Document(lines, Meta, docinfo, rstTitle) ==
    [lines |-> lines, Meta |-> Meta, docinfo |-> docinfo, rstTitle |-> rstTitle]

\* the text of the file, as open(filename) returns it
FileText(doc) == join(doc.lines, "\n")

\* what a reader returns: err is "" for a normal return, else the exception
ReadResult(err, content, metadata) ==
    [err |-> err, content |-> content, metadata |-> metadata]

\* a settings value: None, or a dict d
NoSettings == [none |-> TRUE, d |-> [x \in {} |-> FALSE]]

Settings(d) == [none |-> FALSE, d |-> d]

\* the truth value of a settings argument: None and the empty dict are false
Truthy(settings) == ~settings.none /\ DOMAIN settings.d # {}

(***************************************************************************)
(* RstReader                                                               *)
(***************************************************************************)
\* a docinfo child: a custom field (tagname "field") or a standard one
Element(tagname, name, text, html) ==
    [tagname |-> tagname, name |-> name, text |-> text, html |-> html]

\* the name an element is stored under, lowercased (lines 93-103)
RstName(element) ==
    Lower(IF element.tagname = "field" THEN element.name ELSE element.tagname)

\* the raw value of an element (lines 93-102)
RstValue(element) ==
    IF element.tagname = "field" /\ element.name = "summary"
    THEN element.html
    ELSE element.text

\* the metadata entry of one docinfo element: the key and the coerced value
RstEntry(table, element) ==
    [key |-> RstName(element),
     value |-> process_metadata(table, RstName(element), RstValue(element))]

RECURSIVE Rst_parse_metadata(_, _, _)
\* RstReader._parse_metadata over the docinfo children left, into output
Rst_parse_metadata(table, docinfo, output) ==
    IF Len(docinfo) = 0 THEN ReadResult("", "", output)
    ELSE LET e == RstEntry(table, Head(docinfo))
         IN  IF IsRaised(e.value) THEN ReadResult("ValueError", "", output)
             ELSE Rst_parse_metadata(table, Tail(docinfo), Put(output, e.key, e.value))

\* RstReader.read
RstRead(table, doc) ==
    LET parsed == Rst_parse_metadata(table, doc.docinfo, EmptyDict)
        metadata == parsed.metadata
    IN  IF parsed.err # "" THEN ReadResult(parsed.err, "", EmptyDict)
        ELSE ReadResult("", "rst:" \o FileText(doc),
                        IF "title" \in DOMAIN metadata THEN metadata
                        ELSE Put(metadata, "title", Raw(doc.rstTitle)))

(***************************************************************************)
(* MarkdownReader                                                          *)
(***************************************************************************)
SeqToSet(q) == {q[k] : k \in DOMAIN q}

\* the extensions the Markdown engine is built with (line 139)
MarkdownEngineExtensions(extensions) == SeqToSet(extensions \o <<"meta">>)

\* MarkdownEntry with the value coerced under the name as written
MarkdownEntry_NameAsWritten(table, name, values) ==
    [key |-> Lower(name), value |-> process_metadata(table, name, values[1])]

\* the metadata entry of one md.Meta item: the key and the coerced value
MarkdownEntry(table, name, values) ==
    [key |-> Lower(name), value |-> process_metadata(table, Lower(name), values[1])]

\* MarkdownReader.read, for the instance's extensions attribute
MarkdownRead(table, extensions, doc) ==
    LET Meta == doc.Meta
        entry(n) == MarkdownEntry(table, n, Meta[n])
        keys == {entry(n).key : n \in DOMAIN Meta}
    IN  IF \E n \in DOMAIN Meta : IsRaised(entry(n).value)
        THEN ReadResult("ValueError", "", EmptyDict)
        ELSE ReadResult("", "md:" \o FileText(doc),
                        [k \in keys |->
                            entry(CHOOSE n \in DOMAIN Meta : entry(n).key = k).value])

(***************************************************************************)
(* AsciiDocReader                                                          *)
(***************************************************************************)
\* the state of the header scan of read_meta: the local title (titled is
\* title != None), the metadata so far, where the loop is, and the branch
\* of the if-chain the last line took
ScanState(titled, title, metadata, pc, rule) ==
    [titled |-> titled, title |-> title, metadata |-> metadata, pc |-> pc, rule |-> rule]

ScanStart == ScanState(FALSE, "", EmptyDict, "scan", "")

\* the elif meta_match branch (lines 186-190)
MetaBranch(table, st, m) ==
    LET name == Lower(m.g1)
        value == process_metadata(table, name, m.g2)
        stored == Put(st.metadata, name, value)
    IN  IF IsRaised(value) THEN [st EXCEPT !.pc = "raised", !.rule = "meta"]
        ELSE [st EXCEPT !.rule = "meta",
                        !.metadata = IF name = "revdate"
                                     THEN Put(stored, "date", process_metadata(table, name, m.g2))
                                     ELSE stored]

\* the elif author_match branch (lines 192-195)
AuthorBranch(table, st, m) ==
    LET author == process_metadata(table, "author", m.g1)
        email == process_metadata(table, "email", m.g2)
    IN  [st EXCEPT !.rule = "author",
                   !.metadata = Put(Put(st.metadata, "author", author), "email", email)]

\* the elif rev_match branch (lines 197-203)
RevBranch(table, st, m) ==
    LET date == process_metadata(table, "date", m.g2)
        rev == IF m.none THEN NoneValue ELSE Raw(m.g1)
    IN  IF IsRaised(date) THEN [st EXCEPT !.pc = "raised", !.rule = "rev"]
        ELSE [st EXCEPT !.rule = "rev",
                        !.metadata = Put(Put(Put(Put(st.metadata, "revdate", Raw(m.g2)),
                                                 "date", date),
                                             "revnumber", rev),
                                         "revremark", Raw(m.g3))]

\* ScanLine with the author pattern tested before the metadata-field pattern
ScanLine_AuthorFirst(table, st, raw) ==
    LET line == rstrip(raw)
        meta_match == meta_re(line)
        author_match == author_re(line)
        rev_match == rev_re(line)
    IN  IF strip(line) # "" /\ ~st.titled
        THEN [st EXCEPT !.titled = TRUE, !.title = line, !.rule = "title",
                        !.metadata = Put(st.metadata, "title", Raw(line))]
        ELSE IF strip(line) = "" /\ st.titled
        THEN [st EXCEPT !.pc = "done", !.rule = "break"]
        ELSE IF author_match.ok THEN AuthorBranch(table, st, author_match)
        ELSE IF meta_match.ok THEN MetaBranch(table, st, meta_match)
        ELSE IF rev_match.ok THEN RevBranch(table, st, rev_match)
        ELSE [st EXCEPT !.rule = "continue"]

\* ScanLine with the loop going on at a blank line after the title
ScanLine_NoBreak(table, st, raw) ==
    LET line == rstrip(raw)
        meta_match == meta_re(line)
        author_match == author_re(line)
        rev_match == rev_re(line)
    IN  IF strip(line) # "" /\ ~st.titled
        THEN [st EXCEPT !.titled = TRUE, !.title = line, !.rule = "title",
                        !.metadata = Put(st.metadata, "title", Raw(line))]
        ELSE IF strip(line) = "" /\ st.titled
        THEN [st EXCEPT !.rule = "continue"]
        ELSE IF meta_match.ok THEN MetaBranch(table, st, meta_match)
        ELSE IF author_match.ok THEN AuthorBranch(table, st, author_match)
        ELSE IF rev_match.ok THEN RevBranch(table, st, rev_match)
        ELSE [st EXCEPT !.rule = "continue"]

\* one turn of the loop of read_meta on the next line of the file (lines 176-205)
ScanLine(table, st, raw) ==
    LET line == rstrip(raw)
        meta_match == meta_re(line)
        author_match == author_re(line)
        rev_match == rev_re(line)
    IN  IF strip(line) # "" /\ ~st.titled
        THEN [st EXCEPT !.titled = TRUE, !.title = line, !.rule = "title",
                        !.metadata = Put(st.metadata, "title", Raw(line))]
        ELSE IF strip(line) = "" /\ st.titled
        THEN [st EXCEPT !.pc = "done", !.rule = "break"]
        ELSE IF meta_match.ok THEN MetaBranch(table, st, meta_match)
        ELSE IF author_match.ok THEN AuthorBranch(table, st, author_match)
        ELSE IF rev_match.ok THEN RevBranch(table, st, rev_match)
        ELSE [st EXCEPT !.rule = "continue"]

RECURSIVE ScanFrom(_, _, _, _)
\* the loop of read_meta from line k of the file on
ScanFrom(table, st, lines, k) ==
    IF st.pc # "scan" \/ k > Len(lines) THEN st
    ELSE ScanFrom(table, ScanLine(table, st, lines[k]), lines, k + 1)

\* AsciiDocReader.read_meta
read_meta(table, lines) == ScanFrom(table, ScanStart, lines, 1)

\* AsciiDocReader.read
AsciiDocRead(table, settings, doc) ==
    LET scanned == read_meta(table, doc.lines)
    IN  IF settings.none THEN ReadResult("TypeError", "", EmptyDict)
        ELSE IF "ASCIIDOC_CONF" \notin DOMAIN settings.d
        THEN ReadResult("KeyError", "", EmptyDict)
        ELSE IF scanned.pc = "raised" THEN ReadResult("ValueError", "", EmptyDict)
        ELSE ReadResult("", "asciidoc:" \o FileText(doc), scanned.metadata)

(***************************************************************************)
(* HtmlReader                                                              *)
(***************************************************************************)
\* the class [A-z0-9_-] of HtmlReader._re: A-z spans the letters and the
\* characters [ \ ] ^ _ and the backquote (which no modelled text holds)
HtmlKeyChar(c) ==
    CharIn(c, UpperLetters \o "[\\]^_" \o LowerLetters \o Digits \o "_-")

\* the class [A-z0-9\s_-]
HtmlValueChar(c) == HtmlKeyChar(c) \/ IsSpace(c)

RECURSIVE KeyRun(_, _)
\* the length of the run of key characters of text from position p on
KeyRun(text, p) ==
    IF p <= Len(text) /\ HtmlKeyChar(Char(text, p)) THEN 1 + KeyRun(text, p + 1) ELSE 0

\* HtmlReader._re matched at position p of text: the position of the last
\* character of the match, 0 when there is none.
\*   \<\!\-\-\#\s?[A-z0-9_-]*\s?\:s?[A-z0-9\s_-]*\s?\-\-\>
html_re_at(text, p) ==
    LET n == Len(text)
        q == p + 5
        opt(k) == IF k <= n /\ IsSpace(Char(text, k)) THEN {0, 1} ELSE {0}
        colons == {c \in q..n : /\ Char(text, c) = ":"
                                /\ \E a \in opt(q) :
                                     \E b \in opt(q + a + KeyRun(text, q + a)) :
                                        c = q + a + KeyRun(text, q + a) + b}
        closes(c) == {g \in (c + 1)..n : Char(text, g) = ">"}
    IN  IF ~StartsAt(text, p, "<!--#") \/ colons = {} THEN 0
        ELSE LET c == SetMin(colons)
             IN  IF closes(c) = {} THEN 0
                 ELSE LET g == SetMin(closes(c))
                      IN  IF /\ g >= c + 3
                             /\ \A k \in (c + 1)..(g - 1) : HtmlValueChar(Char(text, k))
                             /\ SubSeq(text, g - 2, g) = "-->"
                          THEN g ELSE 0

RECURSIVE html_findall(_, _)
\* HtmlReader._re.findall(content): the matched texts from position p on
html_findall(text, p) ==
    IF p > Len(text) THEN <<>>
    ELSE LET g == html_re_at(text, p)
         IN  IF g = 0 THEN html_findall(text, p + 1)
             ELSE <<SubSeq(text, p, g)>> \o html_findall(text, g + 1)

\* key = i.split(':')[0][5:].strip()
HtmlKey(i) == strip(From(split(i, ":")[1], 6))

\* value = i.split(':')[-1][:-3].strip()
HtmlValue(i) ==
    LET last == split(i, ":")[Len(split(i, ":"))]
    IN  strip(SubSeq(last, 1, Len(last) - 3))

\* the metadata entry of one matched comment: the key and the coerced value
HtmlEntry(table, i) ==
    [key |-> Lower(HtmlKey(i)),
     value |-> process_metadata(table, Lower(HtmlKey(i)), HtmlValue(i))]

RECURSIVE HtmlStore(_, _, _)
\* the loop of HtmlReader.read over the matches
HtmlStore(table, matches, metadata) ==
    IF Len(matches) = 0 THEN ReadResult("", "", metadata)
    ELSE LET e == HtmlEntry(table, Head(matches))
         IN  IF IsRaised(e.value) THEN ReadResult("ValueError", "", metadata)
             ELSE HtmlStore(table, Tail(matches), Put(metadata, e.key, e.value))

\* HtmlReader.read
HtmlRead(table, doc) ==
    LET content == FileText(doc)
        stored == HtmlStore(table, html_findall(content, 1),
                            Put(EmptyDict, "title", Raw("unnamed")))
    IN  IF stored.err # "" THEN ReadResult(stored.err, "", EmptyDict)
        ELSE ReadResult("", content, stored.metadata)

(***************************************************************************)
(* The module: what importing pelican.readers builds, and read_file.       *)
(***************************************************************************)
VARIABLES
    engines,                \* the engine packages the environment can import
    modstate,               \* "unloaded", "loaded", or the exception of the import
    _EXTENSIONS,            \* the registry: extension -> reader class
    enabled,                \* class attribute enabled, per reader class
    extensions,             \* class attribute extensions, per reader class
    _METADATA_PROCESSORS,   \* the keys of the coercion table
    settings,               \* the callers' settings contexts, by name
    call,                   \* the arguments of the last read_file call
    result,                 \* what the last read_file call did and returned
    input,                  \* a reader's input: the class and the document
    pos,                    \* read_meta: the next line of the file
    scan,                   \* read_meta: the state of the header scan
    out                     \* a reader's read: what it returned

vars == <<engines, modstate, _EXTENSIONS, enabled, extensions, _METADATA_PROCESSORS,
          settings, call, result, input, pos, scan, out>>

modvars == <<engines, modstate, _EXTENSIONS, enabled, extensions, _METADATA_PROCESSORS,
             settings, call, result>>

readvars == <<input, pos, scan, out>>

Engines == {"docutils", "markdown", "asciidocapi"}

\* Reader.__subclasses__(), in the order the classes are defined
ReaderClasses == <<"RstReader", "MarkdownReader", "AsciiDocReader", "HtmlReader">>

\* the file_extensions each class declares
file_extensions(cls) ==
    CASE cls = "RstReader" -> <<"rst">>
      [] cls = "MarkdownReader" -> <<"md", "markdown", "mkd">>
      [] cls = "AsciiDocReader" -> <<"txt">>
      [] cls = "HtmlReader" -> <<"html", "htm">>

\* the loop that fills _EXTENSIONS: a later class replaces an earlier one
BuildRegistry(classes) ==
    LET declares(k, e) == e \in SeqToSet(file_extensions(classes[k]))
        exts == {e \in UNION {SeqToSet(file_extensions(classes[k])) : k \in DOMAIN classes} : TRUE}
    IN  [e \in exts |-> classes[SetMax({k \in DOMAIN classes : declares(k, e)})]]

\* an extensions attribute: None, or a list
NoList == [none |-> TRUE, items |-> <<>>]

List(items) == [none |-> FALSE, items |-> items]

\* the enabled attribute of each class, for the importable engines E
ClassEnabled(E) ==
    [cls \in SeqToSet(ReaderClasses) |->
        CASE cls = "RstReader" -> TRUE
          [] cls = "MarkdownReader" -> "markdown" \in E
          [] cls = "AsciiDocReader" -> "asciidocapi" \in E
          [] cls = "HtmlReader" -> TRUE]

\* the extensions attribute of each class
ClassExtensions ==
    [cls \in SeqToSet(ReaderClasses) |->
        IF cls = "MarkdownReader" THEN List(<<"codehilite", "extra">>) ELSE NoList]

EmptyRegistry == [e \in {} |-> ""]

NoClasses == [cls \in {} |-> FALSE]

\* the module body run in an environment that can import the engines E.
\* Without docutils the first try block leaves docutils and HTMLTranslator
\* unbound (it binds core instead), and the class statement of line 50 raises
\* NameError: the import of the module fails.
ImportModule(E) ==
    IF "docutils" \notin E
    THEN [modstate |-> "NameError", registry |-> EmptyRegistry, enabled |-> NoClasses,
          extensions |-> NoClasses, processors |-> {}]
    ELSE [modstate |-> "loaded", registry |-> BuildRegistry(ReaderClasses),
          enabled |-> ClassEnabled(E), extensions |-> ClassExtensions,
          processors |-> ProcessorNames]

\* DeriveFormat with the derived extension folded to lower case
DeriveFormat_CaseFolded(filename, fmt) ==
    IF fmt = "" THEN Lower(split(filename, ".")[Len(split(filename, "."))]) ELSE fmt

\* fmt = filename.split('.')[-1] when no format is given ("" stands for None)
DeriveFormat(filename, fmt) ==
    IF fmt = "" THEN split(filename, ".")[Len(split(filename, "."))] ELSE fmt

\* settings_key = '%s_EXTENSIONS' % fmt.upper()
SettingsKey(fmt) == Upper(fmt) \o "_EXTENSIONS"

\* SetExtensions with the attribute set on the class instead of the instance
SetExtensions_OnClass(cls, classExtensions, value) ==
    [instance |-> List(value),
     classes |-> [classExtensions EXCEPT ![cls] = List(value)]]

\* reader.extensions = value: the attribute is set on the instance; the
\* attributes of the classes stay as they are
SetExtensions(cls, classExtensions, value) ==
    [instance |-> List(value), classes |-> classExtensions]

\* ConfigureReader with the declared list added to the class's list
ConfigureReader_Extending(cls, fmt, ctx, classExtensions) ==
    IF Truthy(ctx) /\ SettingsKey(fmt) \in DOMAIN ctx.d
    THEN [instance |-> List(classExtensions[cls].items \o ctx.d[SettingsKey(fmt)]),
          classes |-> classExtensions]
    ELSE [instance |-> classExtensions[cls], classes |-> classExtensions]

\* the reader as instantiated and configured (lines 241-245): the value
\* self.extensions denotes, and the class attributes afterwards
ConfigureReader(cls, fmt, ctx, classExtensions) ==
    IF Truthy(ctx) /\ SettingsKey(fmt) \in DOMAIN ctx.d
    THEN SetExtensions(cls, classExtensions, ctx.d[SettingsKey(fmt)])
    ELSE [instance |-> classExtensions[cls], classes |-> classExtensions]

\* Typogrify.typogrify, an external filter of text
Typogrify(text) == "typogrify(" \o text \o ")"

\* reader.read(filename) for the reader class cls
ReaderRead(cls, table, ctx, exts, doc) ==
    CASE cls = "RstReader" -> RstRead(table, doc)
      [] cls = "MarkdownReader" -> MarkdownRead(table, exts, doc)
      [] cls = "AsciiDocReader" -> AsciiDocRead(table, ctx, doc)
      [] cls = "HtmlReader" -> HtmlRead(table, doc)

\* what a read_file call did: the exception raised ("" for a normal return)
\* and its message, the returned pair, the class instantiated ("" for none),
\* whether reader.enabled was consulted, the outcome of reader.read ("" when
\* it was not called), the extensions handed to the Markdown engine, and the
\* class attributes afterwards
Outcome(status, message, content, metadata, reader, consulted, read, engine, classes) ==
    [status |-> status, message |-> message, content |-> content, metadata |-> metadata,
     reader |-> reader, consulted |-> consulted, read |-> read, engine |-> engine,
     classes |-> classes]

\* the typogrify step and the return (lines 253-258)
Finish(ctx, cls, r, engine, classes) ==
    IF Truthy(ctx) /\ "TYPOGRIFY" \notin DOMAIN ctx.d
    THEN Outcome("KeyError", "TYPOGRIFY", "", EmptyDict, cls, TRUE, "ok", engine, classes)
    ELSE IF Truthy(ctx) /\ ctx.d["TYPOGRIFY"]
    THEN IF "title" \notin DOMAIN r.metadata
         THEN Outcome("KeyError", "title", "", EmptyDict, cls, TRUE, "ok", engine, classes)
         ELSE Outcome("", "", Typogrify(r.content),
                      Put(r.metadata, "title", Raw(Typogrify(r.metadata["title"].str))),
                      cls, TRUE, "ok", engine, classes)
    ELSE Outcome("", "", r.content, r.metadata, cls, TRUE, "ok", engine, classes)

\* read_file(filename, fmt, settings) on the document the file holds, in a
\* module whose registry, class attributes and coercion table are as given
read_file(filename, doc, fmt, ctx, registry, clsEnabled, clsExtensions, table) ==
    LET f == DeriveFormat(filename, fmt)
    IN  IF f \notin DOMAIN registry
        THEN Outcome("TypeError", "Pelican does not know how to parse " \o filename,
                     "", EmptyDict, "", FALSE, "", {}, clsExtensions)
        ELSE LET cls == registry[f]
                 reader == ConfigureReader(cls, f, ctx, clsExtensions)
                 engine == IF cls = "MarkdownReader"
                           THEN MarkdownEngineExtensions(reader.instance.items)
                           ELSE {}
                 r == ReaderRead(cls, table, ctx, reader.instance.items, doc)
             IN  IF ~clsEnabled[cls]
                 THEN Outcome("ValueError", "Missing dependencies for " \o f,
                              "", EmptyDict, cls, TRUE, "", {}, reader.classes)
                 ELSE IF r.err # ""
                 THEN Outcome(r.err, "", "", EmptyDict, cls, TRUE, "raised", engine,
                              reader.classes)
                 ELSE Finish(ctx, cls, r, engine, reader.classes)

(***************************************************************************)
(* The inputs: documents, paths and settings contexts.                     *)
(***************************************************************************)
NoMeta == [n \in {} |-> <<>>]

Docs ==
    [plain |-> Document(<<"Hello world">>, NoMeta, <<>>, ""),
     empty |-> Document(<<>>, NoMeta, <<>>, ""),
     blank |-> Document(<<"", "  ">>, NoMeta, <<>>, ""),
     post  |-> Document(<<"My Post", ":Tags: a,b", ":date: 2014-01-01", "", ":date: soon">>,
                        [Title |-> <<"My Post">>, Tags |-> <<"a,b">>, date |-> <<"2014-01-01">>],
                        <<Element("field", "Tags", "a,b", "<p>a,b</p>"),
                          Element("date", "", "2014-01-01", "")>>,
                        "My Post"),
     page  |-> Document(<<"<!--# title : Page -->", "<!--#Status: draft -->", "<p>x</p>">>,
                        NoMeta, <<>>, ""),
     bad   |-> Document(<<"Bad", ":date: soon">>,
                        [date |-> <<"soon">>],
                        <<Element("date", "", "soon", "")>>,
                        "Bad")]

\* the files of the content directory: a path and the document it holds
File(path, name) == [path |-> path, doc |-> Docs[name]]

Files ==
    {File("plain.md", "plain"), File("post.markdown", "post"), File("bad.mkd", "bad"),
     File("post.rst", "post"), File("empty.txt", "empty"), File("blank.txt", "blank"),
     File("post.txt", "post"), File("page.html", "page"), File("plain.htm", "plain"),
     File("post.xyz", "post"), File("post.RST", "post"), File("notes", "plain"),
     File("txt", "post")}

\* the fmt argument: "" is the default None
Formats == {"", "md"}

\* the settings contexts callers hold
Contexts ==
    [none  |-> NoSettings,
     empty |-> Settings([x \in {} |-> FALSE]),
     plain |-> Settings([TYPOGRIFY |-> FALSE, ASCIIDOC_CONF |-> ""]),
     typo  |-> Settings([TYPOGRIFY |-> TRUE, ASCIIDOC_CONF |-> ""]),
     toc   |-> Settings([TYPOGRIFY |-> FALSE, ASCIIDOC_CONF |-> "",
                         MD_EXTENSIONS |-> <<"toc">>,
                         MARKDOWN_EXTENSIONS |-> <<"extra", "footnotes">>,
                         MKD_EXTENSIONS |-> <<>>])]

NoCall == [filename |-> "", doc |-> Docs["empty"], fmt |-> "", settings |-> "none"]

NoOutcome == Outcome("", "", "", EmptyDict, "", FALSE, "", {}, NoClasses)

NoInput == [cls |-> "", doc |-> Docs["empty"]]

NoOutput == [state |-> "pending", err |-> "", content |-> "", metadata |-> EmptyDict]

(***************************************************************************)
(* Spec: the module is imported in some environment, then read_file is     *)
(* called any number of times.                                             *)
(***************************************************************************)
Init ==
    /\ engines \in SUBSET Engines
    /\ modstate = "unloaded"
    /\ _EXTENSIONS = EmptyRegistry
    /\ enabled = NoClasses
    /\ extensions = NoClasses
    /\ _METADATA_PROCESSORS = {}
    /\ settings = Contexts
    /\ call = NoCall
    /\ result = NoOutcome
    /\ input = NoInput
    /\ pos = 1
    /\ scan = ScanStart
    /\ out = NoOutput

\* import pelican.readers
Import ==
    /\ modstate = "unloaded"
    /\ LET m == ImportModule(engines)
       IN  /\ modstate' = m.modstate
           /\ _EXTENSIONS' = m.registry
           /\ enabled' = m.enabled
           /\ extensions' = m.extensions
           /\ _METADATA_PROCESSORS' = m.processors
    /\ UNCHANGED <<engines, settings, call, result, readvars>>

\* a call read_file(filename, fmt, settings)
ReadFile ==
    /\ modstate = "loaded"
    /\ \E file \in Files, fmt \in Formats, ctx \in DOMAIN settings :
         \E o \in {read_file(file.path, file.doc, fmt, settings[ctx], _EXTENSIONS,
                             enabled, extensions, _METADATA_PROCESSORS)} :
             /\ call' = [filename |-> file.path, doc |-> file.doc, fmt |-> fmt,
                         settings |-> ctx]
             /\ result' = o
             /\ extensions' = o.classes
    /\ UNCHANGED <<engines, modstate, _EXTENSIONS, enabled, _METADATA_PROCESSORS,
                   settings, readvars>>

Next == Import \/ ReadFile

Spec == Init /\ [][Next]_vars

(***************************************************************************)
(* SpecRead: one reader reads one document.  RstReader, MarkdownReader and *)
(* HtmlReader read in one step; the header scan of AsciiDocReader takes    *)
(* one step per line of the file.                                          *)
(***************************************************************************)
\* the longest file, in lines
MaxLines == 3

\* the most metadata fields an engine reports
MaxFields == 2

\* every sequence over S of length at most n
RECURSIVE SeqsUpTo(_, _)
SeqsUpTo(S, n) ==
    IF n = 0 THEN {<<>>}
    ELSE LET shorter == SeqsUpTo(S, n - 1)
         IN  shorter \cup {Append(q, x) : q \in shorter, x \in S}

AsciiDocLines ==
    {"", "My Article  ", ":author: Jane Doe <jane@example.com>",
     "Jane Doe <jane@example.com>", "v1.0, 2014-01-01: first", ":Tags: a,b",
     ":revdate: 2014-01-01", ":revdate: soon", ":date: soon", ":TITLE: Other",
     "2014-01-01: x <y>", "soon: x"}

HtmlLines ==
    {"<p>Hi</p>", "<!--# title : My Post -->", "<!--#Tags: a,b-->",
     "<!--# Status :  draft  -->", "<!--#  date:2014-01-01-->", "<!--# date: soon -->",
     "<!--# TITLE:Second-->"}

MetaNames == {"Title", "TAGS", "date", "Status", "x-Custom"}

MetaValues == {<<"a,b">>, <<"2014-01-01", "later">>, <<" draft ">>}

\* the Meta mappings of Markdown: no two names differ in case only
Metas ==
    UNION {[S -> MetaValues] : S \in {T \in SUBSET MetaNames : Cardinality(T) <= MaxFields}}

DocinfoElements ==
    {Element("field", "Tags", "a,b", "<p>a,b</p>"),
     Element("field", "summary", "plain", "<p>rich</p>"),
     Element("field", "Summary", "plain", "<p>rich</p>"),
     Element("date", "", "2014-01-01", ""),
     Element("field", "Date", "soon", ""),
     Element("author", "", "Jane", ""),
     Element("field", "title", "Explicit", "")}

ReaderInputs ==
    {[cls |-> "AsciiDocReader", doc |-> Document(lines, NoMeta, <<>>, "")] :
        lines \in SeqsUpTo(AsciiDocLines, MaxLines)}
    \cup {[cls |-> "HtmlReader", doc |-> Document(lines, NoMeta, <<>>, "")] :
        lines \in SeqsUpTo(HtmlLines, MaxLines)}
    \cup {[cls |-> "MarkdownReader", doc |-> Document(<<"text">>, Meta, <<>>, "")] :
        Meta \in Metas}
    \cup {[cls |-> "RstReader", doc |-> Document(<<"text">>, NoMeta, docinfo, title)] :
        docinfo \in SeqsUpTo(DocinfoElements, MaxFields), title \in {"", "Doc"}}

InitRead ==
    /\ engines = Engines
    /\ modstate = "loaded"
    /\ _EXTENSIONS = ImportModule(Engines).registry
    /\ enabled = ImportModule(Engines).enabled
    /\ extensions = ImportModule(Engines).extensions
    /\ _METADATA_PROCESSORS = ImportModule(Engines).processors
    /\ settings = Contexts
    /\ call = NoCall
    /\ result = NoOutcome
    /\ input \in ReaderInputs
    /\ pos = 1
    /\ scan = ScanStart
    /\ out = NoOutput

Returned(r) == [state |-> "returned", err |-> r.err, content |-> r.content,
                metadata |-> r.metadata]

\* RstReader(settings).read(filename)
RstReaderRead ==
    /\ input.cls = "RstReader"
    /\ out.state = "pending"
    /\ out' = Returned(RstRead(_METADATA_PROCESSORS, input.doc))
    /\ UNCHANGED <<modvars, input, pos, scan>>

\* MarkdownReader(settings).read(filename)
MarkdownReaderRead ==
    /\ input.cls = "MarkdownReader"
    /\ out.state = "pending"
    /\ out' = Returned(MarkdownRead(_METADATA_PROCESSORS,
                                    extensions["MarkdownReader"].items, input.doc))
    /\ UNCHANGED <<modvars, input, pos, scan>>

\* HtmlReader(settings).read(filename)
HtmlReaderRead ==
    /\ input.cls = "HtmlReader"
    /\ out.state = "pending"
    /\ out' = Returned(HtmlRead(_METADATA_PROCESSORS, input.doc))
    /\ UNCHANGED <<modvars, input, pos, scan>>

\* AsciiDocReader.read_meta: one turn of the loop over the lines of the file
ReadMetaLine ==
    /\ input.cls = "AsciiDocReader"
    /\ out.state = "pending"
    /\ scan.pc = "scan"
    /\ pos <= Len(input.doc.lines)
    /\ scan' = ScanLine(_METADATA_PROCESSORS, scan, input.doc.lines[pos])
    /\ pos' = pos + 1
    /\ UNCHANGED <<modvars, input, out>>

\* AsciiDocReader.read_meta: the loop is over (the file ended, the loop
\* broke, or a coercion raised); read_meta returns or the exception leaves it
ReadMetaReturn ==
    /\ input.cls = "AsciiDocReader"
    /\ out.state = "pending"
    /\ scan.pc # "scan" \/ pos > Len(input.doc.lines)
    /\ out' = IF scan.pc = "raised"
              THEN Returned(ReadResult("ValueError", "", EmptyDict))
              ELSE Returned(ReadResult("", "asciidoc:" \o FileText(input.doc), scan.metadata))
    /\ UNCHANGED <<modvars, input, pos, scan>>

NextRead ==
    \/ RstReaderRead
    \/ MarkdownReaderRead
    \/ HtmlReaderRead
    \/ ReadMetaLine
    \/ ReadMetaReturn

SpecRead == InitRead /\ [][NextRead]_vars

(***************************************************************************)
(* Properties of read_file (checked under Spec).                           *)
(***************************************************************************)
\* the extensions the module documents as registered
RegisteredExtensions == {"rst", "md", "markdown", "mkd", "txt", "html", "htm"}

\* the text of a path after its last dot; a path without a dot is taken whole
TrailingExtension(path) ==
    IF Positions(path, ".") = {} THEN path
    ELSE From(path, SetMax(Positions(path, ".")) + 1)

\* the text t occurs in s
Contains(s, t) == \E k \in 1..(Len(s) + 1) : StartsAt(s, k, t)

\* a read_file call has been made
Called == call.filename # ""

\* the format of the last call: the one given, else the trailing extension
CallFormat == IF call.fmt = "" THEN TrailingExtension(call.filename) ELSE call.fmt

\* the last call's settings declare an extension list for its format
OverrideDeclared ==
    /\ ~settings[call.settings].none
    /\ (Upper(CallFormat) \o "_EXTENSIONS") \in DOMAIN settings[call.settings].d

\* the extension list the last call's settings declare for its format
DeclaredExtensions ==
    IF OverrideDeclared
    THEN SeqToSet(settings[call.settings].d[Upper(CallFormat) \o "_EXTENSIONS"])
    ELSE {}

\* C1: whenever the chosen reader's read returns (content, metadata) without
\* error, read_file returns normally and the metadata it returns has the key
\* 'title'.
C1_TitleAlwaysPresent ==
    (Called /\ result.read = "ok") =>
        (result.status = "" /\ "title" \in DOMAIN result.metadata)

\* the engine package a reader class needs ("" when it needs none)
EngineOf(cls) ==
    CASE cls = "RstReader" -> "docutils"
      [] cls = "MarkdownReader" -> "markdown"
      [] cls = "AsciiDocReader" -> "asciidocapi"
      [] OTHER -> ""

EngineBacked == {"RstReader", "MarkdownReader", "AsciiDocReader"}

\* C2: whichever engines are missing, the module loads, every extension of
\* the engine-backed formats is registered, a reader is enabled exactly when
\* its engine is available, and read_file on a format whose engine is missing
\* raises the missing-dependency error naming the format without calling the
\* reader's read.
C2_MissingEngineDisablesReader ==
    (modstate # "unloaded") =>
        /\ modstate = "loaded"
        /\ \A cls \in EngineBacked :
             /\ \A e \in SeqToSet(file_extensions(cls)) :
                  e \in DOMAIN _EXTENSIONS /\ _EXTENSIONS[e] = cls
             /\ enabled[cls] = (EngineOf(cls) \in engines)
        /\ (Called /\ result.reader \in EngineBacked /\ EngineOf(result.reader) \notin engines) =>
             /\ result.status = "ValueError"
             /\ result.message = "Missing dependencies for " \o CallFormat
             /\ result.read = ""

\* C3: read_file without a format, on a path whose trailing extension is not
\* (case-sensitively) a registered extension, raises the unsupported-format
\* error whose message contains the path, before a reader is instantiated,
\* before enabled is consulted and before anything is read.
C3_UnknownExtensionRaisesFirst ==
    (Called /\ call.fmt = "" /\ TrailingExtension(call.filename) \notin RegisteredExtensions) =>
        /\ result.status = "TypeError"
        /\ Contains(result.message, call.filename)
        /\ result.reader = ""
        /\ ~result.consulted
        /\ result.read = ""

\* C3 witness: an upper-case extension is refused although the Markdown
\* engine is missing too
C3_Witness ==
    /\ call.filename = "post.RST"
    /\ call.fmt = ""
    /\ "markdown" \notin engines
    /\ result.status = "TypeError"

\* C5 as claimed: the Markdown engine is handed the baseline {codehilite,
\* extra}, plus the extensions the settings declare for the format, plus meta.
C5_BaselinePlusConfigured ==
    (Called /\ result.reader = "MarkdownReader" /\ result.read # "") =>
        result.engine = {"codehilite", "extra"} \cup DeclaredExtensions \cup {"meta"}

\* C5 as amended: the Markdown engine is handed the extensions the settings
\* declare for the format plus meta (the declared list replaces the baseline),
\* and {codehilite, extra, meta} when the settings declare none.
C5_ConfiguredReplacesBaseline ==
    (Called /\ result.reader = "MarkdownReader" /\ result.read # "") =>
        result.engine = IF OverrideDeclared THEN DeclaredExtensions \cup {"meta"}
                        ELSE {"codehilite", "extra", "meta"}

\* C5 witness: a Markdown file read with MD_EXTENSIONS = ['toc']
C5_Witness ==
    /\ call.filename = "plain.md"
    /\ call.settings = "toc"
    /\ result.read = "ok"
    /\ result.engine = {"toc", "meta"}

\* the outcome of the last call in the module as it was imported
FreshOutcome ==
    read_file(call.filename, call.doc, call.fmt, Contexts[call.settings],
              BuildRegistry(ReaderClasses), ClassEnabled(engines), ClassExtensions,
              ProcessorNames)

\* C7: no read_file call changes the registry, the coercion table, a class's
\* enabled or extensions attribute or a settings context, and the outcome of
\* a call is the one the same call has in the freshly imported module.
C7_ReadFileLeavesModuleUnchanged ==
    /\ [][modstate = "loaded" =>
            /\ _EXTENSIONS' = _EXTENSIONS
            /\ _METADATA_PROCESSORS' = _METADATA_PROCESSORS
            /\ enabled' = enabled
            /\ extensions' = extensions
            /\ settings' = settings]_vars
    /\ []((modstate = "loaded" /\ Called) => result = FreshOutcome)

\* C7 witness: a call whose settings override the Markdown extensions has
\* returned, and the class still has its default list
C7_Witness ==
    /\ call.settings = "toc"
    /\ call.filename = "post.markdown"
    /\ result.read = "ok"
    /\ result.engine = {"extra", "footnotes", "meta"}
    /\ extensions["MarkdownReader"] = List(<<"codehilite", "extra">>)

(***************************************************************************)
(* Properties of the readers (checked under SpecRead).                     *)
(***************************************************************************)
AsciiDoc == input.cls = "AsciiDocReader"

\* the lines of the file being read
Lines == input.doc.lines

\* read_meta has scanned a line; LastLine is that line, stripped as scanned
Scanned == AsciiDoc /\ pos > 1

LastLine == rstrip(Lines[pos - 1])

\* a title had been found before the last line was scanned
TitledBefore == scan.titled /\ scan.rule # "title"

\* the key k has the same entry, or none, in the mappings m1 and m2
SameEntry(m1, m2, k) ==
    /\ (k \in DOMAIN m1) = (k \in DOMAIN m2)
    /\ (k \in DOMAIN m1) => (m1[k] = m2[k])

\* the coercion the table defines for a field name as written
Coerce(name, raw) == process_metadata(ProcessorNames, Lower(name), raw)

\* the rule that takes a line under the order field > author > revision >
\* title > blank-line termination
ClaimedRule(line, titled) ==
    IF meta_re(line).ok THEN "meta"
    ELSE IF author_re(line).ok THEN "author"
    ELSE IF rev_re(line).ok THEN "rev"
    ELSE IF strip(line) # "" /\ ~titled THEN "title"
    ELSE IF strip(line) = "" /\ titled THEN "break"
    ELSE "continue"

\* the rule that takes a line under the order title (the first non-blank
\* line) > blank-line termination > field > author > revision
AmendedRule(line, titled) ==
    IF strip(line) # "" /\ ~titled THEN "title"
    ELSE IF strip(line) = "" /\ titled THEN "break"
    ELSE IF meta_re(line).ok THEN "meta"
    ELSE IF author_re(line).ok THEN "author"
    ELSE IF rev_re(line).ok THEN "rev"
    ELSE "continue"

JaneLine == ":author: Jane Doe <jane@example.com>"

\* C4 as claimed: every scanned line, the first non-blank line included, is
\* taken by the first rule that applies in the order field > author >
\* revision > title > blank-line termination; the line ':author: Jane Doe
\* <jane@example.com>' is stored as the field 'author' and does not become
\* the title.
C4_FieldRuleFirstEverywhere ==
    Scanned =>
        /\ scan.rule = ClaimedRule(LastLine, TitledBefore)
        /\ (LastLine = JaneLine) =>
             /\ "author" \in DOMAIN scan.metadata
             /\ scan.metadata["author"] = Coerce("author", "Jane Doe <jane@example.com>")
             /\ scan.title # JaneLine

\* C4 as amended: every scanned line is taken by the first rule that applies
\* in the order title (the first non-blank line, whatever it matches) >
\* blank-line termination (once a title is set) > field > author > revision.
\* After the title line, a line matching the field pattern is stored through
\* the field rule under its lowercased name and changes neither 'email' nor
\* the title, and a line matching the author pattern but not the field
\* pattern sets 'author' and 'email' even when it matches the revision
\* pattern too.
C4_TitleThenFieldAuthorRevision ==
    [][(AsciiDoc /\ pos' = pos + 1) =>
         LET line == rstrip(Lines[pos])
             m == meta_re(line)
             a == author_re(line)
         IN  /\ scan'.rule = AmendedRule(line, scan.titled)
             /\ (~scan.titled /\ strip(line) # "") =>
                  /\ scan'.title = line
                  /\ scan'.metadata = Put(scan.metadata, "title", Raw(line))
             /\ (scan.titled /\ m.ok /\ scan'.pc # "raised") =>
                  /\ Lower(m.g1) \in DOMAIN scan'.metadata
                  /\ scan'.metadata[Lower(m.g1)] = Coerce(m.g1, m.g2)
                  /\ (Lower(m.g1) # "email") => SameEntry(scan.metadata, scan'.metadata, "email")
                  /\ scan'.title = scan.title
             /\ (scan.titled /\ ~m.ok /\ a.ok) =>
                  /\ scan'.metadata = Put(Put(scan.metadata, "author", Coerce("author", a.g1)),
                                          "email", Raw(a.g2))
       ]_vars

\* C4 witness: after the title, the line ':author: Jane Doe <...>' (which
\* matches the author pattern too) was stored by the field rule
C4_Witness ==
    /\ Scanned
    /\ TitledBefore
    /\ LastLine = JaneLine
    /\ author_re(LastLine).ok
    /\ scan.rule = "meta"
    /\ scan.metadata["author"] = Coerce("author", "Jane Doe <jane@example.com>")
    /\ "email" \notin DOMAIN scan.metadata

\* the characters a metadata key of an HTML comment is made of
IsKeyChar(c) == CharIn(c, UpperLetters \o LowerLetters \o Digits \o "_-")

RECURSIVE RunOfSpaces(_, _)
RunOfSpaces(text, p) ==
    IF p <= Len(text) /\ IsSpace(Char(text, p)) THEN 1 + RunOfSpaces(text, p + 1) ELSE 0

RECURSIVE RunOfKey(_, _)
RunOfKey(text, p) ==
    IF p <= Len(text) /\ IsKeyChar(Char(text, p)) THEN 1 + RunOfKey(text, p + 1) ELSE 0

RECURSIVE CommentFields(_, _)
\* the fields of the comments <!--# key : value --> of text from position p
\* on: any whitespace around the key, any value text up to the closing -->
CommentFields(text, p) ==
    IF p > Len(text) THEN <<>>
    ELSE LET k == p + 5 + RunOfSpaces(text, p + 5)
             c == k + RunOfKey(text, k) + RunOfSpaces(text, k + RunOfKey(text, k))
             closes == {g \in (c + 1)..(Len(text) - 2) : StartsAt(text, g, "-->")}
         IN  IF /\ StartsAt(text, p, "<!--#")
                /\ RunOfKey(text, k) >= 1
                /\ c <= Len(text)
                /\ Char(text, c) = ":"
                /\ closes # {}
             THEN <<[key |-> SubSeq(text, k, k + RunOfKey(text, k) - 1),
                     value |-> strip(SubSeq(text, c + 1, SetMin(closes) - 1))]>>
                  \o CommentFields(text, SetMin(closes) + 3)
             ELSE CommentFields(text, p + 1)

RECURSIVE StoreFields(_, _)
\* the mapping m extended or overridden by the fields, in order
StoreFields(fields, m) ==
    IF Len(fields) = 0 THEN m
    ELSE StoreFields(Tail(fields),
                     Put(m, Lower(Head(fields).key),
                         Coerce(Head(fields).key, Head(fields).value)))

\* C6: for an HTML file the content is the file text, and the metadata are
\* 'title' = 'unnamed' extended or overridden by one entry lower(key) ->
\* coerce(lower(key), trimmed value) per comment <!--# key : value -->, the
\* value being any text up to the closing -->.
C6_HtmlCommentsBecomeMetadata ==
    (input.cls = "HtmlReader" /\ out.state = "returned" /\ out.err = "") =>
        /\ out.content = FileText(input.doc)
        /\ out.metadata = StoreFields(CommentFields(FileText(input.doc), 1),
                                      Put(EmptyDict, "title", Raw("unnamed")))

\* every key of the mapping is lowercase
LowercaseKeys(m) == \A k \in DOMAIN m : k = Lower(k)

\* the name of a docinfo element as the source writes it
WrittenName(e) == IF e.tagname = "field" THEN e.name ELSE e.tagname

ReturnedOk == out.state = "returned" /\ out.err = ""

\* C8: every key of the metadata a reader builds is lowercase, and a field
\* written with the name N and the value V is stored under lower(N) with the
\* value the rule registered for lower(N) gives for V (V itself when there is
\* none), whatever the case of N; a value the rule rejects fails the read.
C8_LowercaseKeysAndCoercion ==
    /\ LowercaseKeys(out.metadata)
    /\ LowercaseKeys(scan.metadata)
    /\ (input.cls = "MarkdownReader" /\ out.state = "returned") =>
         /\ (out.err = "") = (\A n \in DOMAIN input.doc.Meta :
                                ~IsRaised(Coerce(n, input.doc.Meta[n][1])))
         /\ (out.err = "") =>
              \A n \in DOMAIN input.doc.Meta :
                 /\ Lower(n) \in DOMAIN out.metadata
                 /\ out.metadata[Lower(n)] = Coerce(n, input.doc.Meta[n][1])
    /\ (input.cls = "RstReader" /\ ReturnedOk) =>
         LET d == input.doc.docinfo
         IN  \A j \in DOMAIN d :
                (\A k \in DOMAIN d : k > j => Lower(WrittenName(d[k])) # Lower(WrittenName(d[j])))
                => /\ Lower(WrittenName(d[j])) \in DOMAIN out.metadata
                   /\ out.metadata[Lower(WrittenName(d[j]))]
                        = Coerce(WrittenName(d[j]), RstValue(d[j]))
    /\ (input.cls = "HtmlReader" /\ ReturnedOk) =>
         LET ms == html_findall(FileText(input.doc), 1)
         IN  \A j \in DOMAIN ms :
                (\A k \in DOMAIN ms : k > j => Lower(HtmlKey(ms[k])) # Lower(HtmlKey(ms[j])))
                => /\ Lower(HtmlKey(ms[j])) \in DOMAIN out.metadata
                   /\ out.metadata[Lower(HtmlKey(ms[j]))]
                        = Coerce(HtmlKey(ms[j]), HtmlValue(ms[j]))
    /\ (Scanned /\ scan.rule = "meta" /\ scan.pc # "raised") =>
         /\ Lower(meta_re(LastLine).g1) \in DOMAIN scan.metadata
         /\ scan.metadata[Lower(meta_re(LastLine).g1)]
              = Coerce(meta_re(LastLine).g1, meta_re(LastLine).g2)

\* C8 witness: Markdown reported the field 'TAGS', and it came back under
\* 'tags' as a list of tags
C8_Witness ==
    /\ input.cls = "MarkdownReader"
    /\ "TAGS" \in DOMAIN input.doc.Meta
    /\ input.doc.Meta["TAGS"] = <<"a,b">>
    /\ ReturnedOk
    /\ out.metadata["tags"] = Value("tags", "", <<"a", "b">>)

\* the line is empty or all whitespace
IsBlank(line) == \A k \in 1..Len(line) : IsSpace(Char(line, k))

\* the number of the line taken as title: the first non-blank one (0: none)
TitleLine(lines) ==
    IF \A k \in DOMAIN lines : IsBlank(lines[k]) THEN 0
    ELSE SetMin({k \in DOMAIN lines : ~IsBlank(lines[k])})

\* the number of the first blank line after the title line; the last line
\* of the file when there is no title or no such blank line
StopLine(lines) ==
    LET blanks == {k \in DOMAIN lines : k > TitleLine(lines) /\ IsBlank(lines[k])}
    IN  IF TitleLine(lines) = 0 \/ blanks = {} THEN Len(lines) ELSE SetMin(blanks)

\* the file cut after its line n
Header(lines, n) == SubSeq(lines, 1, n)

\* C9: the header scan examines the lines in order and none after the first
\* blank line that follows the title line, so what read_meta returns or
\* raises is what it returns or raises for the file cut at that blank line;
\* the title is assigned once, and the 'title' entry changes afterwards only
\* at an explicit ':title: value' field.
C9_ScanStopsAtBlankAfterTitle ==
    /\ [](AsciiDoc => pos - 1 <= StopLine(Lines))
    /\ []((AsciiDoc /\ out.state = "returned") =>
            LET cut == read_meta(ProcessorNames, Header(Lines, StopLine(Lines)))
            IN  /\ (out.err = "ValueError") = (cut.pc = "raised")
                /\ (out.err = "") => (out.metadata = cut.metadata))
    /\ [][(AsciiDoc /\ scan.titled) => (scan'.titled /\ scan'.title = scan.title)]_vars
    /\ [][(AsciiDoc /\ pos' = pos + 1 /\ "title" \in DOMAIN scan.metadata) =>
            /\ "title" \in DOMAIN scan'.metadata
            /\ (scan'.metadata["title"] # scan.metadata["title"]) =>
                 /\ meta_re(rstrip(Lines[pos])).ok
                 /\ Lower(meta_re(rstrip(Lines[pos])).g1) = "title"
         ]_vars

\* C9 witness: the body of the file holds an unparsable ':date:' line, and
\* read_meta returned the title alone
C9_Witness ==
    /\ AsciiDoc
    /\ Lines = <<"My Article  ", "", ":date: soon">>
    /\ pos = 3
    /\ ReturnedOk
    /\ DOMAIN out.metadata = {"title"}
    /\ out.metadata["title"] = Raw("My Article")

\* C10: whenever the flow-text metadata has the key 'date', its value is the
\* structured date the 'date' rule makes of the raw text, whichever header
\* line produced it.
C10_DateIsAlwaysStructured ==
    (AsciiDoc /\ "date" \in DOMAIN scan.metadata) =>
        scan.metadata["date"].kind = "date"

====
